---- MODULE Spec2Model ----
(***************************************************************************)
(* fnmatch.py: translation of shell patterns into regular expressions,     *)
(* and the matching functions built on it.                                 *)
(*                                                                         *)
(* A Python str is a sequence of one-character strings; indices are the    *)
(* 0-based indices of the source, so pat[k] of the source is pat[k+1]      *)
(* here.  A call's outcome is a record [exc, val]: exc = "None" when the   *)
(* call returns val, otherwise the name of the exception it raises.        *)
(***************************************************************************)
EXTENDS Integers, Sequences, FiniteSets, TLC

VARIABLES
    uefi,       \* sys.platform == 'uefi' and implementation is micropython
    posix,      \* os.path is posixpath
    pc,         \* "idle", "loop" (inside translate's while), "done"
    op,         \* the function that was called
    pat,        \* argument pat
    name,       \* argument name
    names,      \* argument names of filter
    i,          \* translate: scan index
    j,          \* translate: bracket scan index
    res,        \* translate: accumulated expression
    stuff,      \* translate: text of the last bracket group
    branch,     \* translate: branch the last iteration took
    ret,        \* outcome of the call
    compiled,   \* history: patterns _compile_pattern has been called with
    translations \* history: translate invocations made by the last call

vars == <<uefi, posix, pc, op, pat, name, names, i, j, res, stuff, branch,
          ret, compiled, translations>>

----------------------------------------------------------------------------
(* Bounds of the model *)

MaxPatLen == 4
MaxLiveLen == 3
MaxGlobLen == 5
MaxNameLen == 1
MaxNames == 2
MaxEscLen == 3
MaxCaseLen == 4
MaxCachedLen == 1

----------------------------------------------------------------------------
(* Characters *)

Ord(c) ==
    CASE c = "\t" -> 9  [] c = "\n" -> 10 [] c = " " -> 32 [] c = "!" -> 33
      [] c = "#" -> 35  [] c = "$" -> 36  [] c = "&" -> 38 [] c = "(" -> 40
      [] c = ")" -> 41  [] c = "*" -> 42  [] c = "+" -> 43 [] c = "-" -> 45
      [] c = "." -> 46  [] c = "?" -> 63  [] c = "A" -> 65 [] c = "B" -> 66
      [] c = "Z" -> 90  [] c = "[" -> 91  [] c = "\\" -> 92 [] c = "]" -> 93
      [] c = "^" -> 94  [] c = "a" -> 97  [] c = "b" -> 98 [] c = "c" -> 99
      [] c = "m" -> 109
      [] c = "s" -> 115 [] c = "{" -> 123 [] c = "|" -> 124 [] c = "}" -> 125
      [] c = "~" -> 126

AllChars ==
    {"\t", "\n", " ", "!", "#", "$", "&", "(", ")", "*", "+", "-", ".", "?",
     "A", "B", "Z", "[", "\\", "]", "^", "a", "b", "c", "m", "s", "{", "|",
     "}", "~"}

Chr(k) == CHOOSE c \in AllChars : Ord(c) = k

Alnum == {"A", "B", "Z", "a", "b", "c", "m", "s"}

SeqsUpTo(S, n) == UNION {[1..k -> S] : k \in 0..n}

Range(s) == {s[k] : k \in 1..Len(s)}

Ok(v) == [exc |-> "None", val |-> v]

Raise(e, v) == [exc |-> e, val |-> v]

----------------------------------------------------------------------------
(* _re_escape and re.escape *)

\* the characters of b'()[]{}?*+-|^$\\.&~# \t\n\r\v\f' the model uses
SpecialChars ==
    {"(", ")", "[", "]", "{", "}", "?", "*", "+", "-", "|", "^", "$", "\\",
     ".", "&", "~", "#", " ", "\t", "\n"}

_re_special_chars_map == [k \in {Ord(c) : c \in SpecialChars} |-> <<"\\", Chr(k)>>]

\* str.replace(c, r)
RECURSIVE Replace(_, _, _)
Replace(p, c, r) ==
    IF p = <<>> THEN <<>>
    ELSE (IF Head(p) = c THEN r ELSE <<Head(p)>>) \o Replace(Tail(p), c, r)

RECURSIVE ReTranslateFrom(_, _, _)
ReTranslateFrom(p, k, chmap) ==
    IF k > Len(p) THEN p
    ELSE IF Ord(p[k]) \in DOMAIN chmap THEN Replace(p, p[k], chmap[Ord(p[k])])
    ELSE ReTranslateFrom(p, k + 1, chmap)

_re_translate(p, chmap) == ReTranslateFrom(p, 1, chmap)

\* str.translate(table)
RECURSIVE StrTranslate(_, _)
StrTranslate(p, table) ==
    IF p = <<>> THEN <<>>
    ELSE (IF Ord(Head(p)) \in DOMAIN table THEN table[Ord(Head(p))] ELSE <<Head(p)>>)
         \o StrTranslate(Tail(p), table)

\* str(b, 'latin1') and str.encode('latin1'): a bytes object is the sequence
\* of its byte values
latin1_decode(b) == [k \in 1..Len(b) |-> Chr(b[k])]

latin1_encode(s) == [k \in 1..Len(s) |-> Ord(s[k])]

_re_escape_str(pattern) == _re_translate(pattern, _re_special_chars_map)

_re_escape_bytes(pattern) ==
    latin1_encode(StrTranslate(latin1_decode(pattern), _re_special_chars_map))

\* re.escape of the standard library, for one character
re_escape(c) == IF c \in SpecialChars THEN <<"\\", c>> ELSE <<c>>

EscapeChar(c, isUefi) == IF isUefi THEN _re_escape_str(<<c>>) ELSE re_escape(c)

----------------------------------------------------------------------------
(* translate *)

\* pat[i:j]
Slice(p, a, b) == SubSeq(p, a + 1, b)

SkipNegation(p, k) == IF k < Len(p) /\ p[k + 1] = "!" THEN k + 1 ELSE k

\* mutant: the "]" right after "[" or "[!" is not skipped
SkipLeadingClose_None(p, k) == k

SkipLeadingClose(p, k) == IF k < Len(p) /\ p[k + 1] = "]" THEN k + 1 ELSE k

RECURSIVE SkipToClose(_, _)
SkipToClose(p, k) == IF k < Len(p) /\ p[k + 1] # "]" THEN SkipToClose(p, k + 1) ELSE k

\* the value of j when the test "if j >= n" is reached, for a "[" at i-1
BracketEnd(p, k) == SkipToClose(p, SkipLeadingClose(p, SkipNegation(p, k)))

DoubleBackslash(s) == Replace(s, "\\", <<"\\", "\\">>)

\* mutant: a leading "^" is left unescaped
NegateOrEscape_NoCaret(s) == IF s[1] = "!" THEN <<"^">> \o Tail(s) ELSE s

NegateOrEscape(s) ==
    IF s[1] = "!" THEN <<"^">> \o Tail(s)
    ELSE IF s[1] = "^" THEN <<"\\">> \o s
    ELSE s

\* mutant: the literal "[" is appended unescaped
LiteralBracket_Unescaped == <<"[">>

LiteralBracket == <<"\\", "[">>

\* mutant: the scan resumes one character too far
ClassResume_OffByOne(k) == k + 2

ClassResume(k) == k + 1

\* one iteration of the while loop, from scan index k with expression r
Iteration(p, k, r, isUefi) ==
    LET c == p[k + 1]
        k1 == k + 1
        base == [i |-> k1, j |-> 0, res |-> r, stuff |-> <<>>, exc |-> "None",
                 branch |-> "none"]
    IN  IF c = "*" THEN [base EXCEPT !.res = r \o <<".", "*">>, !.branch = "star"]
        ELSE IF c = "?" THEN [base EXCEPT !.res = r \o <<".">>, !.branch = "question"]
        ELSE IF c = "["
        THEN LET jj == BracketEnd(p, k1)
             IN  IF jj >= Len(p)
                 THEN [base EXCEPT !.j = jj, !.res = r \o LiteralBracket,
                                   !.branch = "literal_bracket"]
                 ELSE LET st == DoubleBackslash(Slice(p, k1, jj))
                      IN  IF st = <<>>
                          THEN [base EXCEPT !.j = jj, !.i = ClassResume(jj),
                                            !.exc = "IndexError", !.branch = "class"]
                          ELSE [base EXCEPT !.j = jj, !.i = ClassResume(jj),
                                            !.stuff = NegateOrEscape(st),
                                            !.res = r \o <<"[">> \o NegateOrEscape(st) \o <<"]">>,
                                            !.branch = "class"]
        ELSE [base EXCEPT !.res = r \o EscapeChar(c, isUefi), !.branch = "escape"]

Wrap(r) == <<"(", "?", "m", "s", ")">> \o r \o <<"\\", "Z">>

RECURSIVE TranslateLoop(_, _, _, _)
TranslateLoop(p, k, r, isUefi) ==
    IF k < Len(p)
    THEN LET it == Iteration(p, k, r, isUefi)
         IN  IF it.exc # "None" THEN Raise(it.exc, <<>>)
             ELSE TranslateLoop(p, it.i, it.res, isUefi)
    ELSE Ok(Wrap(r))

translate(p, isUefi) == TranslateLoop(p, 0, <<>>, isUefi)

----------------------------------------------------------------------------
(* The regular-expression engine (module re): compile and match, for the    *)
(* expressions translate can build: the flag group (?ms), ".", "*" after an *)
(* item, character sets with ranges, backslash escapes of non-alphanumeric  *)
(* characters, and the anchor \Z.                                           *)

Atom(kind, neg, lits, ranges) ==
    [kind |-> kind, star |-> FALSE, neg |-> neg, lits |-> lits, ranges |-> ranges]

\* characters that are operators of the expression syntax outside a set and
\* that translate never leaves unescaped; the model does not interpret them
Uninterpreted == {"(", ")", "?", "+", "|", "{", "^", "$"}

\* the items of a set, from position k (1-based), after "[" and "^"
RECURSIVE ParseSetItems(_, _, _, _)
ParseSetItems(r, k, lits, ranges) ==
    IF k > Len(r) THEN [exc |-> "re.error", next |-> k, lits |-> lits, ranges |-> ranges]
    ELSE IF r[k] = "]" /\ (lits # {} \/ ranges # {})
    THEN [exc |-> "None", next |-> k + 1, lits |-> lits, ranges |-> ranges]
    ELSE IF r[k] = "\\" /\ (k = Len(r) \/ r[k + 1] \in Alnum)
    THEN [exc |-> "re.error", next |-> k, lits |-> lits, ranges |-> ranges]
    ELSE LET w1 == IF r[k] = "\\" THEN 2 ELSE 1
             c1 == r[k + w1 - 1]
             k2 == k + w1
         IN  IF k2 <= Len(r) /\ r[k2] = "-"
             THEN LET k3 == k2 + 1
                  IN  IF k3 > Len(r)
                      THEN [exc |-> "re.error", next |-> k3, lits |-> lits, ranges |-> ranges]
                      ELSE IF r[k3] = "]"
                      THEN [exc |-> "None", next |-> k3 + 1,
                            lits |-> lits \cup {c1, "-"}, ranges |-> ranges]
                      ELSE IF r[k3] = "\\" /\ (k3 = Len(r) \/ r[k3 + 1] \in Alnum)
                      THEN [exc |-> "re.error", next |-> k3, lits |-> lits, ranges |-> ranges]
                      ELSE LET w2 == IF r[k3] = "\\" THEN 2 ELSE 1
                               c2 == r[k3 + w2 - 1]
                           IN  IF Ord(c2) < Ord(c1)
                               THEN [exc |-> "re.error", next |-> k3,
                                     lits |-> lits, ranges |-> ranges]
                               ELSE ParseSetItems(r, k3 + w2, lits,
                                                  ranges \cup {<<Ord(c1), Ord(c2)>>})
             ELSE ParseSetItems(r, k2, lits \cup {c1}, ranges)

\* a set, from position k just after its "["
ParseSet(r, k) ==
    LET neg == k <= Len(r) /\ r[k] = "^"
        items == ParseSetItems(r, IF neg THEN k + 1 ELSE k, {}, {})
    IN  [exc |-> items.exc, next |-> items.next,
         atom |-> Atom("set", neg, items.lits, items.ranges)]

RECURSIVE ParseItems(_, _, _)
ParseItems(r, k, acc) ==
    IF k > Len(r) THEN Ok(acc)
    ELSE LET c == r[k]
         IN  IF c = "." THEN ParseItems(r, k + 1, Append(acc, Atom("any", FALSE, {}, {})))
             ELSE IF c = "*"
             THEN IF acc = <<>> \/ acc[Len(acc)].star \/ acc[Len(acc)].kind = "end"
                  THEN Raise("re.error", <<>>)
                  ELSE ParseItems(r, k + 1, [acc EXCEPT ![Len(acc)].star = TRUE])
             ELSE IF c = "\\"
             THEN IF k = Len(r) THEN Raise("re.error", <<>>)
                  ELSE IF r[k + 1] = "Z"
                  THEN ParseItems(r, k + 2, Append(acc, Atom("end", FALSE, {}, {})))
                  ELSE IF r[k + 1] \in Alnum THEN Raise("re.error", <<>>)
                  ELSE ParseItems(r, k + 2, Append(acc, Atom("lit", FALSE, {r[k + 1]}, {})))
             ELSE IF c = "["
             THEN LET set == ParseSet(r, k + 1)
                  IN  IF set.exc # "None" THEN Raise("re.error", <<>>)
                      ELSE ParseItems(r, set.next, Append(acc, set.atom))
             ELSE IF c \in Uninterpreted THEN Raise("re.error", <<>>)
             ELSE ParseItems(r, k + 1, Append(acc, Atom("lit", FALSE, {c}, {})))

FlagGroup == <<"(", "?", "m", "s", ")">>

HasFlagGroup(r) == Len(r) >= 5 /\ SubSeq(r, 1, 5) = FlagGroup

\* re.compile(r): the compiled items, or re.error
re_compile(r) == ParseItems(r, IF HasFlagGroup(r) THEN 6 ELSE 1, <<>>)

AtomMatches(a, x) ==
    IF a.kind = "any" THEN TRUE
    ELSE (x \in a.lits \/ \E rg \in a.ranges : rg[1] <= Ord(x) /\ Ord(x) <= rg[2]) # a.neg

\* items k.. of the compiled expression match s from position q on
RECURSIVE MatchFrom(_, _, _, _)
MatchFrom(atoms, k, s, q) ==
    IF k > Len(atoms) THEN TRUE
    ELSE LET a == atoms[k]
         IN  IF a.kind = "end" THEN q = Len(s) + 1 /\ MatchFrom(atoms, k + 1, s, q)
             ELSE IF a.star
             THEN MatchFrom(atoms, k + 1, s, q)
                  \/ (q <= Len(s) /\ AtomMatches(a, s[q]) /\ MatchFrom(atoms, k, s, q + 1))
             ELSE q <= Len(s) /\ AtomMatches(a, s[q]) /\ MatchFrom(atoms, k + 1, s, q + 1)

\* compiled.match(s) is not None
re_match(atoms, s) == MatchFrom(atoms, 1, s, 1)

----------------------------------------------------------------------------
(* The matching functions *)

Lower(c) == IF c = "A" THEN "a" ELSE IF c = "B" THEN "b" ELSE c

\* mutant: lower case under every convention
normcase_AlwaysLower(s, isPosix) == [k \in 1..Len(s) |-> Lower(s[k])]

\* os.path.normcase: the identity of posixpath, lower case otherwise
normcase(s, isPosix) == IF isPosix THEN s ELSE [k \in 1..Len(s) |-> Lower(s[k])]

\* _compile_pattern for a str pattern: the compiled matcher, or the exception
_compile_pattern(p, isUefi) ==
    LET t == translate(p, isUefi)
    IN  IF t.exc # "None" THEN Raise(t.exc, <<>>) ELSE re_compile(t.val)

fnmatchcase(nm, p, isUefi) ==
    LET match == _compile_pattern(p, isUefi)
    IN  IF match.exc # "None" THEN Raise(match.exc, FALSE)
        ELSE Ok(re_match(match.val, nm))

fnmatch(nm, p, isUefi, isPosix) ==
    fnmatchcase(normcase(nm, isPosix), normcase(p, isPosix), isUefi)

RECURSIVE FilterLoop(_, _, _, _)
FilterLoop(ns, match, isPosix, result) ==
    IF ns = <<>> THEN result
    ELSE FilterLoop(Tail(ns), match, isPosix,
                    IF re_match(match, IF isPosix THEN Head(ns) ELSE normcase(Head(ns), isPosix))
                    THEN Append(result, Head(ns)) ELSE result)

filter(ns, p, isUefi, isPosix) ==
    LET match == _compile_pattern(normcase(p, isPosix), isUefi)
    IN  IF match.exc # "None" THEN Raise(match.exc, <<>>)
        ELSE Ok(FilterLoop(ns, match.val, isPosix, <<>>))

----------------------------------------------------------------------------
(* State machine *)

Init ==
    /\ uefi \in BOOLEAN
    /\ posix \in BOOLEAN
    /\ pc = "idle"
    /\ op = "none"
    /\ pat = <<>>
    /\ name = <<>>
    /\ names = <<>>
    /\ i = 0
    /\ j = 0
    /\ res = <<>>
    /\ stuff = <<>>
    /\ branch = "none"
    /\ ret = Ok(<<>>)
    /\ compiled = {}
    /\ translations = 0

NoScan == i' = 0 /\ j' = 0 /\ res' = <<>> /\ stuff' = <<>> /\ branch' = "none"

(* translate, one action per step of its scan *)

translate_call(p) ==
    /\ pc' = "loop"
    /\ op' = "translate"
    /\ pat' = p
    /\ NoScan
    /\ ret' = Ok(<<>>)
    /\ translations' = 1
    /\ UNCHANGED <<uefi, posix, name, names, compiled>>

\* the body of the while loop, entered with c = pat[i]
LoopBody ==
    LET it == Iteration(pat, i, res, uefi)
    IN  /\ i' = it.i
        /\ j' = it.j
        /\ res' = it.res
        /\ stuff' = it.stuff
        /\ branch' = it.branch
        /\ pc' = IF it.exc = "None" THEN "loop" ELSE "done"
        /\ ret' = IF it.exc = "None" THEN ret ELSE Raise(it.exc, <<>>)
        /\ UNCHANGED <<uefi, posix, op, pat, name, names, compiled, translations>>

loop_star ==
    /\ pc = "loop" /\ i < Len(pat)
    /\ pat[i + 1] = "*"
    /\ LoopBody

loop_question ==
    /\ pc = "loop" /\ i < Len(pat)
    /\ pat[i + 1] = "?"
    /\ LoopBody

loop_literal_bracket ==
    /\ pc = "loop" /\ i < Len(pat)
    /\ pat[i + 1] = "["
    /\ BracketEnd(pat, i + 1) >= Len(pat)
    /\ LoopBody

loop_class ==
    /\ pc = "loop" /\ i < Len(pat)
    /\ pat[i + 1] = "["
    /\ BracketEnd(pat, i + 1) < Len(pat)
    /\ LoopBody

loop_escape ==
    /\ pc = "loop" /\ i < Len(pat)
    /\ pat[i + 1] \notin {"*", "?", "["}
    /\ LoopBody

translate_return ==
    /\ pc = "loop"
    /\ i >= Len(pat)
    /\ pc' = "done"
    /\ ret' = Ok(Wrap(res))
    /\ UNCHANGED <<uefi, posix, op, pat, name, names, i, j, res, stuff, branch,
                   compiled, translations>>

(* the other functions, one action per call *)

Call(f, n, ns, p, r) ==
    /\ pc' = "done"
    /\ op' = f
    /\ pat' = p
    /\ name' = n
    /\ names' = ns
    /\ NoScan
    /\ ret' = r
    /\ UNCHANGED <<uefi, posix>>

\* _compile_pattern has no cache: each call of it calls translate
Compiles(p) == compiled' = compiled \cup {p} /\ translations' = 1

call_translate(p) ==
    Call("translate", <<>>, <<>>, p, translate(p, uefi))
    /\ translations' = 1 /\ UNCHANGED compiled

call_fnmatchcase(n, p) ==
    Call("fnmatchcase", n, <<>>, p, fnmatchcase(n, p, uefi)) /\ Compiles(p)

call_fnmatch(n, p) ==
    Call("fnmatch", n, <<>>, p, fnmatch(n, p, uefi, posix))
    /\ Compiles(normcase(p, posix))

call_filter(ns, p) ==
    Call("filter", <<>>, ns, p, filter(ns, p, uefi, posix))
    /\ Compiles(normcase(p, posix))

call_re_escape_str(p) ==
    Call("_re_escape", <<>>, <<>>, p, Ok(_re_escape_str(p)))
    /\ translations' = 0 /\ UNCHANGED compiled

call_re_escape_bytes(p) ==
    Call("_re_escape_bytes", <<>>, <<>>, p, Ok(_re_escape_bytes(latin1_encode(p))))
    /\ translations' = 0 /\ UNCHANGED compiled

----------------------------------------------------------------------------
(* Inputs *)

\* translate, step by step
ScanChars == {"*", "?", "[", "]", "!", "^", "\\", "-", "a"}

\* the group forms of fnmatch's docstring, [seq] and [!seq], and a group
\* that starts with "^"
DocPats ==
    {<<"[", "a", "b", "c", "]">>, <<"[", "!", "a", "b", "c", "]">>,
     <<"[", "^", "a", "b", "c", "]">>}

ScanPats == SeqsUpTo(ScanChars, MaxPatLen) \cup DocPats

LivePats == SeqsUpTo(ScanChars, MaxLiveLen)

\* translate, fnmatchcase and fnmatch as whole calls
GlobChars == {"*", "?", "[", "]", "!", "-", "a", "A"}

GlobPats == SeqsUpTo(GlobChars, MaxGlobLen)

NameChars == {"a", "A", "-"}

Names == SeqsUpTo(NameChars, MaxNameLen)

\* filter
FilterChars == {"*", "[", "]", "-", "a", "A"}

FilterPats == SeqsUpTo(FilterChars, MaxGlobLen)

NameLists == SeqsUpTo(Names, MaxNames)

\* _re_escape
EscChars == {".", "*", "a", "\\"}

EscStrings == SeqsUpTo(EscChars, MaxEscLen)

\* fnmatch against fnmatchcase
CaseChars == {"*", "[", "]", "!", "-", "a", "A"}

CasePats == SeqsUpTo(CaseChars, MaxCaseLen)

\* repeated calls
CacheChars == {"*", "a", "A"}

CachePats == SeqsUpTo(CacheChars, MaxCachedLen)

----------------------------------------------------------------------------
(* Specifications *)

Scan_translate == pc = "idle" /\ \E p \in ScanPats : translate_call(p)

ScanNext ==
    \/ Scan_translate
    \/ loop_star
    \/ loop_question
    \/ loop_literal_bracket
    \/ loop_class
    \/ loop_escape
    \/ translate_return

ScanSpec == Init /\ [][ScanNext]_vars

Live_translate == pc = "idle" /\ \E p \in LivePats : translate_call(p)

LiveNext ==
    \/ Live_translate
    \/ loop_star
    \/ loop_question
    \/ loop_literal_bracket
    \/ loop_class
    \/ loop_escape
    \/ translate_return

\* translate is straight-line code: once called, its loop runs on
FairScanSpec == Init /\ [][LiveNext]_vars /\ WF_vars(LiveNext)

Api_translate == pc = "idle" /\ \E p \in GlobPats : call_translate(p)

Api_fnmatchcase == pc = "idle" /\ \E n \in Names, p \in GlobPats : call_fnmatchcase(n, p)

Api_fnmatch == pc = "idle" /\ \E n \in Names, p \in GlobPats : call_fnmatch(n, p)

Api_filter == pc = "idle" /\ \E ns \in NameLists, p \in FilterPats : call_filter(ns, p)

Api_re_escape_str == pc = "idle" /\ \E p \in EscStrings : call_re_escape_str(p)

Api_re_escape_bytes == pc = "idle" /\ \E p \in EscStrings : call_re_escape_bytes(p)

Next ==
    \/ Api_translate
    \/ Api_fnmatchcase
    \/ Api_fnmatch
    \/ Api_filter
    \/ Api_re_escape_str
    \/ Api_re_escape_bytes

Spec == Init /\ [][Next]_vars

Case_fnmatch == pc = "idle" /\ \E n \in Names, p \in CasePats : call_fnmatch(n, p)

Case_fnmatchcase == pc = "idle" /\ \E n \in Names, p \in CasePats : call_fnmatchcase(n, p)

CaseNext == Case_fnmatch \/ Case_fnmatchcase

CaseSpec == Init /\ [][CaseNext]_vars

\* any sequence of calls, one after the other
Cache_fnmatch == \E n \in Names, p \in CachePats : call_fnmatch(n, p)

Cache_fnmatchcase == \E n \in Names, p \in CachePats : call_fnmatchcase(n, p)

Cache_filter == \E ns \in NameLists, p \in CachePats : call_filter(ns, p)

CacheNext == Cache_fnmatch \/ Cache_fnmatchcase \/ Cache_filter

CacheSpec == Init /\ [][CacheNext]_vars

----------------------------------------------------------------------------
(* Properties *)

\* Shell-glob reading of a bracket group whose "[" is at position b (1-based)
\* of P: the position of its closing "]", the first "]" after an optional "!"
\* and an optional "]" right after it; 0 when there is none.
GroupClose(P, b) ==
    LET s1 == IF b + 1 <= Len(P) /\ P[b + 1] = "!" THEN b + 2 ELSE b + 1
        s2 == IF s1 <= Len(P) /\ P[s1] = "]" THEN s1 + 1 ELSE s1
        found == {k \in s2..Len(P) : P[k] = "]"}
    IN  IF found = {} THEN 0 ELSE CHOOSE k \in found : \A m \in found : k <= m

Suffix(S, k) == SubSeq(S, k, Len(S))

\* S as a whole matches P under the shell-glob rules
RECURSIVE GlobMatch(_, _)
GlobMatch(P, S) ==
    IF P = <<>> THEN S = <<>>
    ELSE IF Head(P) = "*"
    THEN \E k \in 1..(Len(S) + 1) : GlobMatch(Tail(P), Suffix(S, k))
    ELSE IF S = <<>> THEN FALSE
    ELSE IF Head(P) = "?" THEN GlobMatch(Tail(P), Tail(S))
    ELSE IF Head(P) = "[" /\ GroupClose(P, 1) # 0
    THEN LET close == GroupClose(P, 1)
             negated == P[2] = "!"
             seq == SubSeq(P, IF negated THEN 3 ELSE 2, close - 1)
         IN  (Head(S) \in Range(seq)) # negated
             /\ GlobMatch(Suffix(P, close + 1), Tail(S))
    ELSE Head(S) = Head(P) /\ GlobMatch(Tail(P), Tail(S))

\* C1: fnmatchcase(S, P) returns true exactly when the whole of S matches P
\* under the shell-glob rules, for every pattern P and string S.
C1_WholeStringGlobMatch ==
    (pc = "done" /\ op = "fnmatchcase") => ret = Ok(GlobMatch(pat, name))

\* C2: for every pattern, the string translate returns is a well-formed
\* regular expression: the regular-expression compiler accepts it.
C2_TranslationCompiles ==
    (pc = "done" /\ op = "translate")
        => ret.exc = "None" /\ re_compile(ret.val).exc = "None"

\* C3: translate is total: every iteration of the scan strictly increases i,
\* i never exceeds len(pat), nothing is raised, and a scan that has started
\* ends with translate returning a string.
C3_TranslateTotal ==
    /\ [](i <= Len(pat) /\ ret.exc = "None")
    /\ [][(pc = "loop" /\ i < Len(pat)) => i' > i]_vars
    /\ (pc = "loop") ~> (pc = "done" /\ ret.exc = "None" /\ ret.val # <<>>)

C3_Witness ==
    /\ pc = "done" /\ op = "translate" /\ ret.exc = "None"
    /\ Len(pat) = 3
    /\ branch = "class"
    /\ i = 3

\* the expression between the flag group and the end anchor
Body(t) == SubSeq(t, 6, Len(t) - 2)

C4_Strings == SeqsUpTo({"[", "\\", "a"}, 2)

\* C4: at a "[" with no closing "]", the scan appends exactly backslash and
\* "[" and goes on right after the "[": translate("[" + R), for R without
\* "]", is translate(R) with "\[" put before its body, and translate("[")
\* matches "[" and nothing else.
C4_UnterminatedBracket ==
    [][/\ (pc = "loop" /\ i < Len(pat) /\ pat[i + 1] = "[" /\ GroupClose(pat, i + 1) = 0)
            => (res' = res \o <<"\\", "[">> /\ i' = i + 1 /\ pc' = "loop")
       /\ (pc' = "done" /\ pat' # <<>> /\ Head(pat') = "[" /\ "]" \notin Range(pat'))
            => (/\ ret'.exc = "None"
                /\ ret'.val = <<"(", "?", "m", "s", ")", "\\", "[">>
                                \o Body(translate(Tail(pat'), uefi).val) \o <<"\\", "Z">>)
       /\ (pc' = "done" /\ pat' = <<"[">>)
            => \A x \in C4_Strings :
                   re_match(re_compile(ret'.val).val, x) <=> (x = <<"[">>)
      ]_vars

C4_Witness ==
    /\ pc = "done" /\ op = "translate"
    /\ Len(pat) >= 3 /\ Head(pat) = "[" /\ "]" \notin Range(pat)
    /\ "*" \in Range(pat)
    /\ "[" \in Range(Tail(pat))

\* T of C5: double every backslash, then turn a leading "!" into "^", or else
\* put a backslash before a leading "^"
C5_T(st) ==
    LET doubled == [k \in 1..Len(st) |-> IF st[k] = "\\" THEN <<"\\", "\\">> ELSE <<st[k]>>]
        RECURSIVE Flat(_)
        Flat(k) == IF k > Len(st) THEN <<>> ELSE doubled[k] \o Flat(k + 1)
        d == Flat(1)
    IN  IF d = <<>> THEN d
        ELSE IF d[1] = "!" THEN <<"^">> \o Tail(d)
        ELSE IF d[1] = "^" THEN <<"\\", "^">> \o Tail(d)
        ELSE d

\* C5: at a "[" that has a closing "]", the scan appends "[" + T(stuff) + "]",
\* stuff being the text strictly between the brackets, and goes on right after
\* the closing "]"; "[!abc]" gives "[^abc]", "[^abc]" gives "[\^abc]", "[]]"
\* gives "[]]" and "[!]]" gives "[^]]".
C5_ClosedBracket ==
    [][/\ (pc = "loop" /\ i < Len(pat) /\ pat[i + 1] = "[" /\ GroupClose(pat, i + 1) # 0)
            => LET close == GroupClose(pat, i + 1)
               IN  /\ res' = res \o <<"[">> \o C5_T(SubSeq(pat, i + 2, close - 1)) \o <<"]">>
                   /\ i' = close
                   /\ pc' = "loop"
       /\ (pc' = "done" /\ pat' = <<"[", "!", "a", "b", "c", "]">>)
            => Body(ret'.val) = <<"[", "^", "a", "b", "c", "]">>
       /\ (pc' = "done" /\ pat' = <<"[", "^", "a", "b", "c", "]">>)
            => Body(ret'.val) = <<"[", "\\", "^", "a", "b", "c", "]">>
       /\ (pc' = "done" /\ pat' = <<"[", "]", "]">>) => Body(ret'.val) = <<"[", "]", "]">>
       /\ (pc' = "done" /\ pat' = <<"[", "!", "]", "]">>) => Body(ret'.val) = <<"[", "^", "]", "]">>
      ]_vars

C5_Witness ==
    /\ pc = "done" /\ op = "translate"
    /\ pat = <<"[", "^", "\\", "]">>
    /\ ret = Ok(<<"(", "?", "m", "s", ")", "[", "\\", "^", "\\", "\\", "]", "\\", "Z">>)

\* the elements of ns, in order, that fnmatch accepts
RECURSIVE C6_Accepted(_, _, _, _)
C6_Accepted(ns, p, isUefi, isPosix) ==
    IF ns = <<>> THEN <<>>
    ELSE (IF fnmatch(Head(ns), p, isUefi, isPosix) = Ok(TRUE) THEN <<Head(ns)>> ELSE <<>>)
         \o C6_Accepted(Tail(ns), p, isUefi, isPosix)

\* C6: filter(names, pat) returns exactly the elements of names for which
\* fnmatch is true, in input order, duplicates kept, un-normalized, and the
\* empty list, never an error, when nothing matches.
C6_FilterIsFnmatch ==
    (pc = "done" /\ op = "filter") => ret = Ok(C6_Accepted(names, pat, uefi, posix))

\* C7 as claimed: with the identity as normcase fnmatch equals fnmatchcase;
\* with lower-casing, whenever the two differ fnmatch is true and fnmatchcase
\* is false.
C7_DivergeOnCaseOnly ==
    (pc = "done" /\ op = "fnmatch")
        => /\ posix => ret = fnmatchcase(name, pat, uefi)
           /\ (~posix /\ ret # fnmatchcase(name, pat, uefi))
                => (ret = Ok(TRUE) /\ fnmatchcase(name, pat, uefi) = Ok(FALSE))

\* no bracket group of P, from position b on, is negated or holds a "-"
RECURSIVE C7_PlainGroups(_, _)
C7_PlainGroups(P, b) ==
    IF b > Len(P) THEN TRUE
    ELSE IF P[b] = "[" /\ GroupClose(P, b) # 0
    THEN /\ P[b + 1] # "!"
         /\ "-" \notin Range(SubSeq(P, b + 1, GroupClose(P, b) - 1))
         /\ C7_PlainGroups(P, GroupClose(P, b) + 1)
    ELSE C7_PlainGroups(P, b + 1)

\* C7, amended: with the identity as normcase fnmatch equals fnmatchcase; with
\* lower-casing, for a pattern none of whose bracket groups is negated or
\* holds a "-", whenever the two differ fnmatch is true and fnmatchcase false.
C7_DivergeOnCaseOnlyPlain ==
    (pc = "done" /\ op = "fnmatch")
        => /\ posix => ret = fnmatchcase(name, pat, uefi)
           /\ (~posix /\ C7_PlainGroups(pat, 1) /\ ret # fnmatchcase(name, pat, uefi))
                => (ret = Ok(TRUE) /\ fnmatchcase(name, pat, uefi) = Ok(FALSE))

C7_Witness ==
    /\ pc = "done" /\ op = "fnmatch" /\ ~posix
    /\ pat = <<"[", "A", "]", "*">> /\ name = <<"a">>
    /\ ret = Ok(TRUE)
    /\ fnmatchcase(name, pat, uefi) = Ok(FALSE)

\* C8: a call whose pattern an earlier call has already compiled reuses the
\* stored matcher: it does not call translate again.
C8_ReusesCompiled ==
    [][(compiled' = compiled /\ op' \in {"fnmatch", "fnmatchcase", "filter"})
            => translations' = 0]_vars

\* every character of the escape set prefixed by one backslash
RECURSIVE C9_EscapeEach(_)
C9_EscapeEach(p) ==
    IF p = <<>> THEN <<>>
    ELSE (IF Head(p) \in SpecialChars THEN <<"\\", Head(p)>> ELSE <<Head(p)>>)
         \o C9_EscapeEach(Tail(p))

\* C9: for a text string of any length _re_escape prefixes every occurrence
\* of every character of the escape set by one backslash, which is what its
\* byte-string branch returns for the same latin-1 characters.
C9_EscapesEverySpecial ==
    (pc = "done" /\ op = "_re_escape")
        => /\ ret.val = C9_EscapeEach(pat)
           /\ latin1_encode(ret.val) = _re_escape_bytes(latin1_encode(pat))

\* C10: whenever the bracket scan finds a closing "]", the text between the
\* brackets has at least one character, so stuff[0] is in range and neither
\* "[]" nor "[^]" is emitted; "[]", "[!]" and a final "[" are literal.
C10_StuffNotEmpty ==
    [][/\ (pc = "loop" /\ i < Len(pat) /\ branch' = "class")
            => /\ j' - (i + 1) >= 1
               /\ pc' = "loop" /\ ret'.exc = "None"
               /\ Len(res') >= Len(res) + 3
               /\ SubSeq(res', Len(res) + 1, Len(res'))
                      \notin {<<"[", "]">>, <<"[", "^", "]">>}
       /\ (pc = "loop" /\ i < Len(pat)
           /\ Suffix(pat, i + 1) \in {<<"[", "]">>, <<"[", "!", "]">>, <<"[">>})
            => (branch' = "literal_bracket" /\ res' = res \o <<"\\", "[">>)
      ]_vars

C10_Witness ==
    /\ pc = "loop" /\ branch = "class"
    /\ pat = <<"[", "!", "]", "]">>
    /\ stuff = <<"^", "]">>
    /\ i = 4

====
